---------------------------- MODULE Spec2Model ----------------------------
(***************************************************************************)
(* Model of the branch domain model of R2X (src/r2x/models/branch.py).     *)
(*                                                                         *)
(* A branch class is a declarative pydantic model: an ordered list of      *)
(* fields, each required or defaulted, nullable or not, and possibly       *)
(* carrying a sign constraint (ge=0 / le=0).  Constructing an instance     *)
(* validates every declared field in declaration order and collects all    *)
(* violations; an instance exists only when no violation was found.        *)
(*                                                                         *)
(* Values are wrapped as options: None is <<>>, a present value v is <<v>>.*)
(* A quantity is a record [magnitude, units]; a MinMax is a pair           *)
(* <<min, max>>; a serialized range is the dict [min |-> .., max |-> ..].  *)
(***************************************************************************)
EXTENDS Integers, Sequences, FiniteSets, TLC

VARIABLES pc, cls, op, kwargs, errors, instance, record, loaded, mm

vars == <<pc, cls, op, kwargs, errors, instance, record, loaded, mm>>

(***************************************************************************)
(* Bounds of the model.                                                    *)
(***************************************************************************)
\* magnitudes supplied by callers range over -MaxMag .. MaxMag
MaxMag == 1
\* range end points supplied to MinMax range over -MaxLim .. MaxLim
MaxLim == 1
\* a caller supplies at most MaxOpt non-required fields per construction
MaxOpt == 1

Mags == (0 - MaxMag) .. MaxMag
Lims == (0 - MaxLim) .. MaxLim

(***************************************************************************)
(* Option values.                                                          *)
(***************************************************************************)
None == <<>>
Some(v) == <<v>>

(***************************************************************************)
(* Collaborators imported by branch.py (r2x.models.core, r2x.units,        *)
(* r2x.models.topology).                                                   *)
(***************************************************************************)
\* mutant of MinMax: no ordering check
MinMax_unchecked(lo, hi) ==
    [ok |-> TRUE, error |-> "", value |-> Some(<<lo, hi>>)]

\* MinMax(min, max): the ordered pair; construction rejects min > max
MinMax(lo, hi) ==
    IF lo > hi
    THEN [ok |-> FALSE, error |-> "range_violation", value |-> None]
    ELSE [ok |-> TRUE, error |-> "", value |-> Some(<<lo, hi>>)]

MinOf(m) == m[1]
MaxOf(m) == m[2]

\* ActivePower(value, "MW") and Percentage(value, "%"): magnitude and unit
ActivePower(v, u) == [magnitude |-> v, units |-> u]
Percentage(v, u) == [magnitude |-> v, units |-> u]

ACBus_example == "ACBus.example"
DCBus_example == "DCBus.example"
Area_example == "Area.example"

(***************************************************************************)
(* Field declarations.  kind: "str", "ref", "float", "quantity", "percent",*)
(* "minmax".  constraint: "ge" (>= 0), "le" (<= 0) or "".                  *)
(***************************************************************************)
Fld(n, k, req, nullable, dflt, c) ==
    [name |-> n, kind |-> k, required |-> req, nullable |-> nullable,
     default |-> dflt, constraint |-> c]

\* Device: every entity requires a name
DeviceFields == << Fld("name", "str", TRUE, FALSE, None, "") >>

BranchFields == DeviceFields

\* mutants of ACBranchFields (next two definitions)
ACBranchFields_ratingUnconstrained ==
    BranchFields \o <<
        Fld("from_bus", "ref", TRUE, FALSE, None, ""),
        Fld("to_bus", "ref", TRUE, FALSE, None, ""),
        Fld("r", "float", FALSE, TRUE, None, ""),
        Fld("x", "float", FALSE, TRUE, None, ""),
        Fld("primary_shunt", "float", FALSE, TRUE, None, ""),
        Fld("rating", "quantity", FALSE, TRUE, None, ""),
        Fld("active_power_flow", "quantity", FALSE, TRUE, None, "ge"),
        Fld("reactive_power_flow", "quantity", FALSE, TRUE, None, "ge"),
        Fld("angle_limits", "minmax", FALSE, TRUE, None, "") >>

ACBranchFields_fromBusOptional ==
    BranchFields \o <<
        Fld("from_bus", "ref", FALSE, TRUE, None, ""),
        Fld("to_bus", "ref", TRUE, FALSE, None, ""),
        Fld("r", "float", FALSE, TRUE, None, ""),
        Fld("x", "float", FALSE, TRUE, None, ""),
        Fld("primary_shunt", "float", FALSE, TRUE, None, ""),
        Fld("rating", "quantity", FALSE, TRUE, None, "ge"),
        Fld("active_power_flow", "quantity", FALSE, TRUE, None, "ge"),
        Fld("reactive_power_flow", "quantity", FALSE, TRUE, None, "ge"),
        Fld("angle_limits", "minmax", FALSE, TRUE, None, "") >>

ACBranchFields ==
    BranchFields \o <<
        Fld("from_bus", "ref", TRUE, FALSE, None, ""),
        Fld("to_bus", "ref", TRUE, FALSE, None, ""),
        Fld("r", "float", FALSE, TRUE, None, ""),
        Fld("x", "float", FALSE, TRUE, None, ""),
        Fld("primary_shunt", "float", FALSE, TRUE, None, ""),
        Fld("rating", "quantity", FALSE, TRUE, None, "ge"),
        Fld("active_power_flow", "quantity", FALSE, TRUE, None, "ge"),
        Fld("reactive_power_flow", "quantity", FALSE, TRUE, None, "ge"),
        Fld("angle_limits", "minmax", FALSE, TRUE, None, "") >>

\* mutant of MonitoredLineFields: rating_down loses its le=0 constraint
MonitoredLineFields_ratingDownUnconstrained ==
    ACBranchFields \o <<
        Fld("rating_up", "quantity", FALSE, TRUE, None, "ge"),
        Fld("rating_down", "quantity", FALSE, TRUE, None, ""),
        Fld("losses", "percent", FALSE, TRUE, None, "") >>

MonitoredLineFields ==
    ACBranchFields \o <<
        Fld("rating_up", "quantity", FALSE, TRUE, None, "ge"),
        Fld("rating_down", "quantity", FALSE, TRUE, None, "le"),
        Fld("losses", "percent", FALSE, TRUE, None, "") >>

LineFields == ACBranchFields

Transformer2WFields == ACBranchFields

DCBranchFields ==
    BranchFields \o <<
        Fld("from_bus", "ref", TRUE, FALSE, None, ""),
        Fld("to_bus", "ref", TRUE, FALSE, None, ""),
        Fld("active_power_flow", "quantity", FALSE, TRUE, None, "ge"),
        Fld("active_power_limits_from", "minmax", FALSE, TRUE, None, ""),
        Fld("active_power_limits_to", "minmax", FALSE, TRUE, None, ""),
        Fld("reactive_power_limits_from", "minmax", FALSE, TRUE, None, ""),
        Fld("reactive_power_limits_to", "minmax", FALSE, TRUE, None, "") >>

\* mutant of AreaInterchangeFields: min_power_flow loses its le=0 constraint
AreaInterchangeFields_minUnconstrained ==
    BranchFields \o <<
        Fld("max_power_flow", "quantity", TRUE, FALSE, None, "ge"),
        Fld("min_power_flow", "quantity", TRUE, FALSE, None, ""),
        Fld("from_area", "ref", FALSE, TRUE, None, ""),
        Fld("to_area", "ref", FALSE, TRUE, None, "") >>

AreaInterchangeFields ==
    BranchFields \o <<
        Fld("max_power_flow", "quantity", TRUE, FALSE, None, "ge"),
        Fld("min_power_flow", "quantity", TRUE, FALSE, None, "le"),
        Fld("from_area", "ref", FALSE, TRUE, None, ""),
        Fld("to_area", "ref", FALSE, TRUE, None, "") >>

TModelHVDCLineFields ==
    DCBranchFields \o <<
        Fld("rating_up", "float", FALSE, TRUE, None, "ge"),
        Fld("rating_down", "float", FALSE, TRUE, None, "le"),
        Fld("losses", "float", FALSE, FALSE, Some(0), "ge"),
        Fld("resistance", "float", FALSE, TRUE, Some(0), "ge"),
        Fld("inductance", "float", FALSE, TRUE, Some(0), "ge"),
        Fld("capacitance", "float", FALSE, TRUE, Some(0), "ge") >>

Classes == {"Branch", "ACBranch", "MonitoredLine", "Line", "Transformer2W",
            "DCBranch", "AreaInterchange", "TModelHVDCLine"}

ACClasses == {"ACBranch", "MonitoredLine", "Line", "Transformer2W"}
DCClasses == {"DCBranch", "TModelHVDCLine"}

Schema(c) ==
    CASE c = "Branch" -> BranchFields
      [] c = "ACBranch" -> ACBranchFields
      [] c = "MonitoredLine" -> MonitoredLineFields
      [] c = "Line" -> LineFields
      [] c = "Transformer2W" -> Transformer2WFields
      [] c = "DCBranch" -> DCBranchFields
      [] c = "AreaInterchange" -> AreaInterchangeFields
      [] c = "TModelHVDCLine" -> TModelHVDCLineFields

FieldNames(c) == {Schema(c)[i].name : i \in 1..Len(Schema(c))}

FieldInfo(c, f) ==
    LET S == Schema(c) IN S[CHOOSE i \in 1..Len(S) : S[i].name = f]


(***************************************************************************)
(* Construction: pydantic validation of the declared fields.               *)
(***************************************************************************)
Magnitude(fi, v) ==
    IF fi.kind \in {"quantity", "percent"} THEN v.magnitude ELSE v

\* outcome of validating one declared field against the supplied kwargs
FieldResult(fi, kw) ==
    IF fi.name \notin DOMAIN kw
    THEN IF fi.required
         THEN [ok |-> FALSE, type |-> "missing", value |-> None]
         ELSE [ok |-> TRUE, type |-> "", value |-> fi.default]
    ELSE LET v == kw[fi.name] IN
         IF v = None
         THEN IF fi.nullable
              THEN [ok |-> TRUE, type |-> "", value |-> None]
              ELSE [ok |-> FALSE, type |-> "float_type", value |-> None]
         ELSE IF fi.constraint = "ge" /\ Magnitude(fi, v[1]) < 0
              THEN [ok |-> FALSE, type |-> "greater_than_equal", value |-> None]
         ELSE IF fi.constraint = "le" /\ Magnitude(fi, v[1]) > 0
              THEN [ok |-> FALSE, type |-> "less_than_equal", value |-> None]
         ELSE [ok |-> TRUE, type |-> "", value |-> v]

RECURSIVE CollectErrors(_, _, _)
CollectErrors(S, kw, i) ==
    IF i > Len(S) THEN <<>>
    ELSE LET r == FieldResult(S[i], kw) IN
         (IF r.ok THEN <<>> ELSE << [loc |-> S[i].name, type |-> r.type] >>)
             \o CollectErrors(S, kw, i + 1)

RECURSIVE FirstError(_, _, _)
FirstError(S, kw, i) ==
    IF i > Len(S) THEN <<>>
    ELSE LET r == FieldResult(S[i], kw) IN
         IF r.ok THEN FirstError(S, kw, i + 1)
         ELSE << [loc |-> S[i].name, type |-> r.type] >>

\* mutant of ValidationErrors: stop at the first violation found
ValidationErrors_failFast(S, kw) == FirstError(S, kw, 1)

\* every violation, in field declaration order
ValidationErrors(S, kw) == CollectErrors(S, kw, 1)

Validate(c, kw) ==
    LET errs == ValidationErrors(Schema(c), kw) IN
    [errors |-> errs,
     instance |-> IF Len(errs) = 0
                  THEN Some([f \in FieldNames(c) |->
                                FieldResult(FieldInfo(c, f), kw).value])
                  ELSE None]

(***************************************************************************)
(* Example factories.                                                      *)
(***************************************************************************)
Branch_example == ("name" :> Some("ExampleBranch"))

MonitoredLine_example ==
    ("name" :> Some("ExampleMonitoredLine"))
    @@ ("from_bus" :> Some(ACBus_example))
    @@ ("to_bus" :> Some(ACBus_example))
    @@ ("losses" :> Some(Percentage(10, "%")))
    @@ ("rating_up" :> Some(ActivePower(100, "MW")))
    @@ ("rating_down" :> Some(ActivePower(0 - 100, "MW")))
    @@ ("rating" :> Some(ActivePower(100, "MW")))

Line_example ==
    ("name" :> Some("ExampleLine"))
    @@ ("from_bus" :> Some(ACBus_example))
    @@ ("to_bus" :> Some(ACBus_example))
    @@ ("rating" :> Some(ActivePower(100, "MW")))

Transformer2W_example ==
    ("name" :> Some("Example2WTransformer"))
    @@ ("rating" :> Some(ActivePower(100, "MW")))
    @@ ("from_bus" :> Some(ACBus_example))
    @@ ("to_bus" :> Some(ACBus_example))

AreaInterchange_example ==
    ("name" :> Some("ExampleAreaInterchange"))
    @@ ("max_power_flow" :> Some(ActivePower(100, "MW")))
    @@ ("min_power_flow" :> Some(ActivePower(0 - 100, "MW")))
    @@ ("from_area" :> Some(Area_example))
    @@ ("to_area" :> Some(Area_example))

TModelHVDCLine_example ==
    ("name" :> Some("ExampleDCLine"))
    @@ ("from_bus" :> Some(DCBus_example))
    @@ ("to_bus" :> Some(DCBus_example))
    @@ ("rating_up" :> Some(100))
    @@ ("rating_down" :> Some(80))

ExampleClasses == {"Branch", "MonitoredLine", "Line", "Transformer2W",
                   "AreaInterchange", "TModelHVDCLine"}

ExampleKwargs(c) ==
    CASE c = "Branch" -> Branch_example
      [] c = "MonitoredLine" -> MonitoredLine_example
      [] c = "Line" -> Line_example
      [] c = "Transformer2W" -> Transformer2W_example
      [] c = "AreaInterchange" -> AreaInterchange_example
      [] c = "TModelHVDCLine" -> TModelHVDCLine_example

(***************************************************************************)
(* Serialization.  A field serializer receives the field value (None or a  *)
(* MinMax) and returns a dict or None.                                     *)
(***************************************************************************)
EmptyDict == <<>>

\* mutant of serialize_angle_limits: min and max swapped
serialize_angle_limits_swapped(min_max) ==
    IF min_max # None
    THEN Some([min |-> MaxOf(min_max[1]), max |-> MinOf(min_max[1])])
    ELSE None

serialize_angle_limits(min_max) ==
    IF min_max # None
    THEN Some([min |-> MinOf(min_max[1]), max |-> MaxOf(min_max[1])])
    ELSE None

\* mutant of serialize_active_power_limits_from: a dict even for None
serialize_active_power_limits_from_dictForNone(min_max) ==
    IF min_max # None
    THEN Some([min |-> MinOf(min_max[1]), max |-> MaxOf(min_max[1])])
    ELSE Some(EmptyDict)

serialize_active_power_limits_from(min_max) ==
    IF min_max # None
    THEN Some([min |-> MinOf(min_max[1]), max |-> MaxOf(min_max[1])])
    ELSE None

serialize_active_power_limits_to(min_max) ==
    IF min_max # None
    THEN Some([min |-> MinOf(min_max[1]), max |-> MaxOf(min_max[1])])
    ELSE None

serialize_reactive_power_limits_from(min_max) ==
    IF min_max # None
    THEN Some([min |-> MinOf(min_max[1]), max |-> MaxOf(min_max[1])])
    ELSE None

serialize_reactive_power_limits_to(min_max) ==
    IF min_max # None
    THEN Some([min |-> MinOf(min_max[1]), max |-> MaxOf(min_max[1])])
    ELSE None

\* the value a field contributes to the serialized record (None: nothing)
SerializeField(c, f, v) ==
    CASE c \in ACClasses /\ f = "angle_limits" -> serialize_angle_limits(v)
      [] c \in DCClasses /\ f = "active_power_limits_from" ->
             serialize_active_power_limits_from(v)
      [] c \in DCClasses /\ f = "active_power_limits_to" ->
             serialize_active_power_limits_to(v)
      [] c \in DCClasses /\ f = "reactive_power_limits_from" ->
             serialize_reactive_power_limits_from(v)
      [] c \in DCClasses /\ f = "reactive_power_limits_to" ->
             serialize_reactive_power_limits_to(v)
      [] OTHER ->
             IF v # None /\ FieldInfo(c, f).kind \in {"quantity", "percent"}
             THEN Some(v[1].magnitude)
             ELSE v

\* the serialized record: fields whose serialized value is None are omitted
DumpRecord(c, inst) ==
    LET ser == [f \in FieldNames(c) |-> SerializeField(c, f, inst[f])] IN
    [f \in {g \in FieldNames(c) : ser[g] # None} |-> ser[f][1]]

\* reading a {"min", "max"} dict back into a MinMax
MinMaxFromDict(d) ==
    IF {"min", "max"} \subseteq DOMAIN d
    THEN MinMax(d.min, d.max)
    ELSE [ok |-> FALSE, error |-> "missing", value |-> None]

\* reading a serialized record back into an instance of class c
LoadRecord(c, rec) ==
    LET bad == {f \in DOMAIN rec : FieldInfo(c, f).kind = "minmax"
                                      /\ ~MinMaxFromDict(rec[f]).ok}
        kw == [f \in DOMAIN rec |->
                 LET k == FieldInfo(c, f).kind IN
                 CASE k = "minmax" -> MinMaxFromDict(rec[f]).value
                   [] k = "quantity" -> Some(ActivePower(rec[f], "MW"))
                   [] k = "percent" -> Some(Percentage(rec[f], "%"))
                   [] OTHER -> Some(rec[f])]
    IN IF bad # {}
       THEN [errors |-> << [loc |-> CHOOSE f \in bad : TRUE,
                            type |-> "minmax"] >>,
             instance |-> None]
       ELSE Validate(c, kw)

(***************************************************************************)
(* Inputs a caller may supply.                                             *)
(***************************************************************************)
ValidMinMax ==
    {MinMax(lo, hi).value : lo \in Lims, hi \in Lims} \ {None}

\* the values a caller may pass for a field
Dom(c, fi) ==
    LET present ==
          CASE fi.kind = "str" -> {Some("Name")}
            [] fi.kind = "ref" ->
                 IF fi.name \in {"from_area", "to_area"}
                 THEN {Some(Area_example)}
                 ELSE IF c \in ACClasses THEN {Some(ACBus_example)}
                      ELSE {Some(DCBus_example)}
            [] fi.kind = "quantity" -> {Some(ActivePower(m, "MW")) : m \in Mags}
            [] fi.kind = "percent" -> {Some(Percentage(m, "%")) : m \in Mags}
            [] fi.kind = "float" -> {Some(m) : m \in Mags}
            [] fi.kind = "minmax" -> ValidMinMax
    IN present \cup (IF fi.nullable \/ fi.kind = "float" THEN {None} ELSE {})

\* all kwargs over fields i.. of S that supply at most n non-required fields
RECURSIVE KwargsFrom(_, _, _, _)
KwargsFrom(c, S, i, n) ==
    IF i > Len(S) THEN { <<>> }
    ELSE LET fi == S[i]
             skip == KwargsFrom(c, S, i + 1, n)
             take == IF fi.required
                     THEN {(fi.name :> v) @@ g :
                              v \in Dom(c, fi), g \in KwargsFrom(c, S, i + 1, n)}
                     ELSE IF n > 0
                     THEN {(fi.name :> v) @@ g :
                              v \in Dom(c, fi),
                              g \in KwargsFrom(c, S, i + 1, n - 1)}
                     ELSE {}
         IN skip \cup take

Kwargs(c) == KwargsFrom(c, Schema(c), 1, MaxOpt)

(***************************************************************************)
(* State machine: one caller constructing, dumping and re-loading objects. *)
(***************************************************************************)
NoResult == [ok |-> FALSE, error |-> "", value |-> None]

Init ==
    /\ pc = "idle"
    /\ cls = ""
    /\ op = ""
    /\ kwargs = <<>>
    /\ errors = <<>>
    /\ instance = None
    /\ record = <<>>
    /\ loaded = None
    /\ mm = NoResult

\* MinMax(min=lo, max=hi)
NewMinMax(lo, hi) ==
    /\ pc = "idle"
    /\ pc' = "minmax"
    /\ op' = "MinMax"
    /\ kwargs' = ("min" :> Some(lo)) @@ ("max" :> Some(hi))
    /\ mm' = MinMax(lo, hi)
    /\ UNCHANGED <<cls, errors, instance, record, loaded>>

\* c(**kw)
Construct(c) ==
    /\ pc = "idle"
    /\ \E kw \in Kwargs(c) :
          /\ kwargs' = kw
          /\ errors' = Validate(c, kw).errors
          /\ instance' = Validate(c, kw).instance
    /\ pc' = "constructed"
    /\ cls' = c
    /\ op' = "init"
    /\ UNCHANGED <<record, loaded, mm>>

\* c.example()
Example(c) ==
    /\ pc = "idle"
    /\ pc' = "constructed"
    /\ cls' = c
    /\ op' = "example"
    /\ kwargs' = ExampleKwargs(c)
    /\ errors' = Validate(c, ExampleKwargs(c)).errors
    /\ instance' = Validate(c, ExampleKwargs(c)).instance
    /\ UNCHANGED <<record, loaded, mm>>

\* serialize the constructed instance
Dump ==
    /\ pc = "constructed"
    /\ instance # None
    /\ pc' = "dumped"
    /\ record' = DumpRecord(cls, instance[1])
    /\ UNCHANGED <<cls, op, kwargs, errors, instance, loaded, mm>>

\* deserialize the record produced by Dump
Load ==
    /\ pc = "dumped"
    /\ pc' = "loaded"
    /\ loaded' = LoadRecord(cls, record).instance
    /\ UNCHANGED <<cls, op, kwargs, errors, instance, record, mm>>

\* the caller drops its objects and starts over
Reset ==
    /\ pc # "idle"
    /\ pc' = "idle"
    /\ cls' = ""
    /\ op' = ""
    /\ kwargs' = <<>>
    /\ errors' = <<>>
    /\ instance' = None
    /\ record' = <<>>
    /\ loaded' = None
    /\ mm' = NoResult

Next ==
    \/ \E lo \in Lims, hi \in Lims : NewMinMax(lo, hi)
    \/ \E c \in Classes : Construct(c)
    \/ \E c \in ExampleClasses : Example(c)
    \/ Dump
    \/ Load
    \/ Reset

Spec == Init /\ [][Next]_vars

(***************************************************************************)
(* Helpers for stating the properties.                                     *)
(***************************************************************************)
Built == pc \in {"constructed", "dumped", "loaded"}

Succeeded == Built /\ instance # None

HasError(f, t) ==
    \E i \in 1..Len(errors) : errors[i].loc = f /\ errors[i].type = t

\* the caller passed a value (not None) for field f
Supplied(f) == f \in DOMAIN kwargs /\ kwargs[f] # None

SuppliedMag(f) == Magnitude(FieldInfo(cls, f), kwargs[f][1])

\* field f of the instance is None or has a magnitude >= 0 (resp. <= 0)
NoneOrGe0(f) ==
    instance[1][f] = None \/ Magnitude(FieldInfo(cls, f), instance[1][f][1]) >= 0

NoneOrLe0(f) ==
    instance[1][f] = None \/ Magnitude(FieldInfo(cls, f), instance[1][f][1]) =< 0

RejectsNegative(f) ==
    (Supplied(f) /\ SuppliedMag(f) < 0)
        => (instance = None /\ HasError(f, "greater_than_equal"))

RejectsPositive(f) ==
    (Supplied(f) /\ SuppliedMag(f) > 0)
        => (instance = None /\ HasError(f, "less_than_equal"))

MinMaxFieldsOf(c) == {f \in FieldNames(c) : FieldInfo(c, f).kind = "minmax"}

RequiredOf(c) == {f \in FieldNames(c) : FieldInfo(c, f).required}

SignFieldsOf(c) == {f \in FieldNames(c) : FieldInfo(c, f).constraint # ""}

DeclIndex(c, f) == CHOOSE i \in 1..Len(Schema(c)) : Schema(c)[i].name = f

HVDCElectrical == {"losses", "resistance", "inductance", "capacitance"}

(***************************************************************************)
(* Properties.                                                             *)
(***************************************************************************)

\* C1: every example() factory returns an instance of its type and raises
\* no validation error.
C1_ExamplesValidate ==
    (pc = "constructed" /\ op = "example")
        => (instance # None /\ Len(errors) = 0
            /\ DOMAIN instance[1] = FieldNames(cls))

\* C2: every constructed MonitoredLine or TModelHVDCLine has rating_up None
\* or >= 0 and rating_down None or <= 0; supplying a negative rating_up or
\* a positive rating_down fails with a sign-constraint error and yields no
\* instance.
C2_RatingUpDownSigns ==
    (Built /\ cls \in {"MonitoredLine", "TModelHVDCLine"})
        => /\ instance # None => (NoneOrGe0("rating_up") /\ NoneOrLe0("rating_down"))
           /\ RejectsNegative("rating_up")
           /\ RejectsPositive("rating_down")

C2_Witness ==
    /\ pc = "constructed" /\ cls = "MonitoredLine" /\ op = "init"
    /\ {"name", "from_bus", "to_bus"} \subseteq DOMAIN kwargs
    /\ Supplied("rating_down") /\ SuppliedMag("rating_down") > 0
    /\ instance = None
    /\ errors = << [loc |-> "rating_down", type |-> "less_than_equal"] >>

\* C3: every constructed ACBranch (or subtype) has rating, active_power_flow
\* and reactive_power_flow None or >= 0, every constructed DCBranch or
\* TModelHVDCLine has active_power_flow None or >= 0, and supplying a
\* negative value for any of these fields makes construction fail.
C3_NonNegativeFlows ==
    /\ (Built /\ cls \in ACClasses)
          => \A f \in {"rating", "active_power_flow", "reactive_power_flow"} :
                /\ instance # None => NoneOrGe0(f)
                /\ RejectsNegative(f)
    /\ (Built /\ cls \in DCClasses)
          => /\ instance # None => NoneOrGe0("active_power_flow")
             /\ RejectsNegative("active_power_flow")

C3_Witness ==
    /\ pc = "constructed" /\ cls = "Line" /\ op = "init"
    /\ Supplied("rating") /\ SuppliedMag("rating") < 0
    /\ {"name", "from_bus", "to_bus"} \subseteq DOMAIN kwargs
    /\ instance = None
    /\ HasError("rating", "greater_than_equal")

\* C4: every constructed AreaInterchange has max_power_flow >= 0 and
\* min_power_flow <= 0, hence min_power_flow <= 0 <= max_power_flow;
\* a negative max_power_flow or a positive min_power_flow is rejected with
\* a sign-constraint error.
C4_InterchangeSigns ==
    (Built /\ cls = "AreaInterchange")
        => /\ instance # None =>
                 /\ instance[1]["max_power_flow"] # None
                 /\ instance[1]["min_power_flow"] # None
                 /\ instance[1]["max_power_flow"][1].magnitude >= 0
                 /\ instance[1]["min_power_flow"][1].magnitude =< 0
                 /\ instance[1]["min_power_flow"][1].magnitude
                       =< instance[1]["max_power_flow"][1].magnitude
           /\ RejectsNegative("max_power_flow")
           /\ RejectsPositive("min_power_flow")

C4_Witness ==
    /\ pc = "constructed" /\ cls = "AreaInterchange" /\ op = "init"
    /\ "name" \in DOMAIN kwargs
    /\ Supplied("max_power_flow") /\ SuppliedMag("max_power_flow") < 0
    /\ Supplied("min_power_flow") /\ SuppliedMag("min_power_flow") =< 0
    /\ instance = None
    /\ HasError("max_power_flow", "greater_than_equal")

\* C5: MinMax(min, max) fails with a range violation when min > max and
\* succeeds when min <= max, and every MinMax held by a branch field
\* satisfies min <= max.
C5_MinMaxOrdered ==
    /\ pc = "minmax" =>
          LET lo == kwargs["min"][1]
              hi == kwargs["max"][1]
          IN /\ lo > hi => (~mm.ok /\ mm.error = "range_violation"
                              /\ mm.value = None)
             /\ lo =< hi => (mm.ok /\ mm.value = Some(<<lo, hi>>))
    /\ Succeeded =>
          \A f \in MinMaxFieldsOf(cls) :
              instance[1][f] # None
                  => MinOf(instance[1][f][1]) =< MaxOf(instance[1][f][1])

C5_Witness ==
    /\ pc = "minmax"
    /\ kwargs["min"][1] > kwargs["max"][1]
    /\ ~mm.ok
    /\ mm.error = "range_violation"

\* C6: construction fails, producing no instance, whenever from_bus or
\* to_bus (AC and DC branches) or max_power_flow or min_power_flow
\* (AreaInterchange) is not supplied; the error is a missing-field error.
C6_RequiredFields ==
    Built =>
        \A f \in (IF cls \in ACClasses \cup DCClasses
                  THEN {"from_bus", "to_bus"}
                  ELSE IF cls = "AreaInterchange"
                  THEN {"max_power_flow", "min_power_flow"}
                  ELSE {}) :
            f \notin DOMAIN kwargs
                => (instance = None /\ HasError(f, "missing"))

C6_Witness ==
    /\ pc = "constructed" /\ cls = "ACBranch" /\ op = "init"
    /\ "from_bus" \notin DOMAIN kwargs
    /\ {"name", "to_bus"} \subseteq DOMAIN kwargs
    /\ instance = None
    /\ HasError("from_bus", "missing")

\* C7: each present MinMax-valued field m serializes to exactly the dict
\* {"min": m.min, "max": m.max}, and reading that dict back yields a MinMax
\* equal to m.
C7_MinMaxRoundTrip ==
    /\ pc \in {"dumped", "loaded"} =>
          \A f \in MinMaxFieldsOf(cls) :
              instance[1][f] # None =>
                  /\ f \in DOMAIN record
                  /\ record[f] = [min |-> MinOf(instance[1][f][1]),
                                  max |-> MaxOf(instance[1][f][1])]
    /\ pc = "loaded" =>
          /\ loaded # None
          /\ \A f \in MinMaxFieldsOf(cls) :
                instance[1][f] # None => loaded[1][f] = instance[1][f]

C7_Witness ==
    /\ pc = "loaded"
    /\ cls \in ACClasses
    /\ instance[1]["angle_limits"] # None
    /\ MinOf(instance[1]["angle_limits"][1]) < MaxOf(instance[1]["angle_limits"][1])
    /\ loaded # None
    /\ loaded[1]["angle_limits"] = instance[1]["angle_limits"]

\* C8: a MinMax-valued field that is None has no entry in the serialized
\* record (neither a null nor a dict).
C8_NoneRangeOmitted ==
    pc \in {"dumped", "loaded"} =>
        \A f \in MinMaxFieldsOf(cls) :
            instance[1][f] = None => f \notin DOMAIN record

C8_Witness ==
    /\ pc = "dumped"
    /\ cls \in DCClasses
    /\ instance[1]["active_power_limits_from"] = None
    /\ instance[1]["active_power_limits_to"] # None
    /\ "active_power_limits_from" \notin DOMAIN record
    /\ "active_power_limits_to" \in DOMAIN record

\* C9: on TModelHVDCLine, losses, resistance, inductance and capacitance
\* default to 0 when not supplied and are never negative on an instance,
\* and TModelHVDCLine.example() yields an instance on which all four are 0.
C9_HVDCDefaults ==
    (Built /\ cls = "TModelHVDCLine") =>
        /\ instance # None =>
              \A f \in HVDCElectrical :
                  /\ f \notin DOMAIN kwargs => instance[1][f] = Some(0)
                  /\ NoneOrGe0(f)
        /\ op = "example" =>
              /\ instance # None
              /\ \A f \in HVDCElectrical : instance[1][f] = Some(0)

\* C10 as stated: required-field presence is validated first and validation
\* is fail-fast, so for an input with both a missing required field and a
\* sign violation the error raised is the missing-field error (the first
\* violation reported is a missing field).
C10_FailFastMissingFirst ==
    (pc = "constructed"
       /\ (\E f \in RequiredOf(cls) : f \notin DOMAIN kwargs)
       /\ (\E f \in SignFieldsOf(cls) :
              Supplied(f) /\ (IF FieldInfo(cls, f).constraint = "ge"
                              THEN SuppliedMag(f) < 0
                              ELSE SuppliedMag(f) > 0)))
        => (Len(errors) > 0 /\ errors[1].type = "missing")

\* C10 amended: construction validates every declared field and reports
\* all violations together, in declaration order, each naming its field and
\* constraint; an input with a missing required field and a sign violation
\* is reported with both; an instance exists exactly when nothing was
\* reported, and then it has every declared field.
C10_AllViolationsReported ==
    pc = "constructed" =>
        /\ \A f \in RequiredOf(cls) :
              f \notin DOMAIN kwargs => HasError(f, "missing")
        /\ \A f \in SignFieldsOf(cls) :
              /\ FieldInfo(cls, f).constraint = "ge" => RejectsNegative(f)
              /\ FieldInfo(cls, f).constraint = "le" => RejectsPositive(f)
        /\ \A i, j \in 1..Len(errors) :
              i < j => DeclIndex(cls, errors[i].loc) < DeclIndex(cls, errors[j].loc)
        /\ \A i \in 1..Len(errors) :
              /\ errors[i].loc \in FieldNames(cls)
              /\ errors[i].type \in {"missing", "greater_than_equal",
                                     "less_than_equal", "float_type"}
        /\ (instance = None) <=> (Len(errors) > 0)
        /\ instance # None => DOMAIN instance[1] = FieldNames(cls)

C10_Witness ==
    /\ pc = "constructed" /\ cls = "AreaInterchange" /\ op = "init"
    /\ "name" \in DOMAIN kwargs
    /\ "min_power_flow" \notin DOMAIN kwargs
    /\ Supplied("max_power_flow") /\ SuppliedMag("max_power_flow") < 0
    /\ instance = None
    /\ Len(errors) = 2
    /\ errors[1] = [loc |-> "max_power_flow", type |-> "greater_than_equal"]
    /\ errors[2] = [loc |-> "min_power_flow", type |-> "missing"]

=============================================================================
